---- MODULE Spec2Model ----
(***************************************************************************)
(* Model of the Fax-lang C++ runtime, fax_runtime.hpp (namespace fax_std): *)
(*   - print_item / println : the variadic output utility,                 *)
(*   - Ptr<T>               : the null-checked pointer wrapper,            *)
(*   - Array<T>             : std::vector<T> with a bounds-checked         *)
(*                            operator[].                                  *)
(* The three components do not depend on each other; each has its own      *)
(* specification (SpecArray, SpecPtr, SpecOut) over the shared variables.  *)
(***************************************************************************)
EXTENDS Integers, Sequences, FiniteSets, TLC

VARIABLES
    arr,        \* Array<T>: the elements of the underlying std::vector<T>
    arrLast,    \* the last operation applied to the Array and its outcome
    log,        \* history: values appended since the Array was last empty
    pure,       \* history: TRUE while arr was built from empty by push_back only
    data,       \* Ptr<T>::data of every Ptr object, by object name
    made,       \* how each Ptr object was constructed ("none" = no such object)
    asserted,   \* history: the reference a Ptr was checked-constructed with
    heap,       \* the value of every live referent
    live,       \* the addresses whose referent is alive
    ptrLast,    \* the last operation applied to a Ptr and its outcome
    cout,       \* the characters written to std::cout, in order
    calls,      \* history: the output calls made so far, in order
    outLast     \* the last output call: what it was given, what stood before

arrVars == <<arr, arrLast, log, pure>>
ptrVars == <<data, made, asserted, heap, live, ptrLast>>
outVars == <<cout, calls, outLast>>
vars == <<arr, arrLast, log, pure, data, made, asserted, heap, live, ptrLast,
          cout, calls, outLast>>

(***************************************************************************)
(* Bounds of the model.                                                    *)
(***************************************************************************)
MaxLen == 3        \* longest Array explored
MaxVal == 1        \* element and referent values are 0..MaxVal
SizeBits == 3      \* width w of size_t, scaled down from 64
NumAddr == 2       \* addresses of referents are 1..NumAddr
MaxArgs == 2       \* longest println argument list explored
MaxCalls == 2      \* number of output calls explored

Values == 0 .. MaxVal
NoVal == 0 - 1

Min(a, b) == IF a < b THEN a ELSE b

RECURSIVE Pow2(_)
Pow2(n) == IF n = 0 THEN 1 ELSE 2 * Pow2(n - 1)

(***************************************************************************)
(* Array<T> : public std::vector<T>                                        *)
(***************************************************************************)
OutOfBoundsMsg == "Fax-lang: Array index out of bounds"
VectorRangeMsg == "vector::_M_range_check"

\* size_t is unsigned and SizeBits wide: 0 .. 2^w - 1.
SizeT == 0 .. (Pow2(SizeBits) - 1)
\* A signed integer of the same width, as generated code may supply.
SignedIndex == (0 - Pow2(SizeBits - 1)) .. (Pow2(SizeBits - 1) - 1)
\* What a caller can write between the brackets.
IndexArg == SignedIndex \cup SizeT

\* The conversion of the argument to the size_t parameter: modulo 2^w.
to_size_t_abs(i) == IF i < 0 THEN 0 - i ELSE i
to_size_t(i) == i % Pow2(SizeBits)

\* std::vector<T>::max_size(): at most PTRDIFF_MAX elements.
max_size == Pow2(SizeBits - 1) - 1
Capacity == Min(MaxLen, max_size)

\* this->size()
size(s) == Len(s)

\* The guard of Array::operator[]: index >= this->size().
out_of_bounds_gt(index, s) == index > size(s)
out_of_bounds(index, s) == index >= size(s)

\* std::vector<T>::at(index): element number index, counted from 0; at()
\* itself throws std::out_of_range (with its own message) past the end.
at_ok(index, s) == index < size(s)
at_next(index, s) == s[Min(index + 2, Len(s))]
at(index, s) == s[index + 1]

\* std::vector<T>::push_back(v)
push_back_front(s, v) == <<v>> \o s
push_back(s, v) == Append(s, v)

\* The assignment through the T& that operator[] returned.
store_all(s, index, v) == [k \in 1 .. Len(s) |-> v]
store(s, index, v) == [s EXCEPT ![index + 1] = v]

\* An operation and its outcome: the index as written and as converted, the
\* value stored, the value read, the exception's message, and, for an
\* indexed access, the elements before it.
ArrOp(op, i, v, res, err, before) ==
    [op |-> op, idx |-> i, uidx |-> to_size_t(i), val |-> v, res |-> res,
     err |-> err, before |-> before]

SeqsUpTo(n) == UNION {[1 .. k -> Values] : k \in 0 .. n}

\* Array() through the inherited constructors: the empty sequence.
Array_ctor_empty ==
    /\ UNCHANGED <<ptrVars, outVars>>
    /\ arr' = <<>>
    /\ log' = <<>>
    /\ pure' = TRUE
    /\ arrLast' = ArrOp("ctor", 0, NoVal, NoVal, "none", <<>>)

\* Array(Iter first, Iter last): a copy of an existing range.
Array_ctor_range ==
    \E r \in SeqsUpTo(Capacity) :
        /\ r # <<>>
        /\ UNCHANGED <<ptrVars, outVars>>
        /\ arr' = r
        /\ log' = <<>>
        /\ pure' = FALSE
        /\ arrLast' = ArrOp("ctor_range", 0, NoVal, NoVal, "none", <<>>)

\* Array(n, v) through the inherited constructors: n copies of v.
Array_ctor_sized ==
    \E n \in 1 .. Capacity, v \in Values :
        /\ UNCHANGED <<ptrVars, outVars>>
        /\ arr' = [k \in 1 .. n |-> v]
        /\ log' = <<>>
        /\ pure' = FALSE
        /\ arrLast' = ArrOp("ctor_sized", 0, v, NoVal, "none", <<>>)

\* The inherited push_back.
Array_push_back ==
    \E v \in Values :
        /\ size(arr) < Capacity
        /\ UNCHANGED <<ptrVars, outVars>>
        /\ arr' = push_back(arr, v)
        /\ log' = IF pure THEN Append(log, v) ELSE log
        /\ pure' = pure
        /\ arrLast' = ArrOp("push_back", 0, v, NoVal, "none", <<>>)

\* The inherited pop_back (the caller's precondition: not empty).
Array_pop_back ==
    /\ size(arr) > 0
    /\ UNCHANGED <<ptrVars, outVars>>
    /\ arr' = SubSeq(arr, 1, Len(arr) - 1)
    /\ log' = <<>>
    /\ pure' = (Len(arr) = 1)
    /\ arrLast' = ArrOp("pop_back", 0, NoVal, NoVal, "none", <<>>)

\* The inherited clear.
Array_clear ==
    /\ UNCHANGED <<ptrVars, outVars>>
    /\ arr' = <<>>
    /\ log' = <<>>
    /\ pure' = TRUE
    /\ arrLast' = ArrOp("clear", 0, NoVal, NoVal, "none", <<>>)

\* The outcome of either operator[] overload on index: the exception thrown
\* by the guard, the exception thrown by at(), or none.
index_error(index, s) ==
    IF out_of_bounds(index, s) THEN OutOfBoundsMsg
    ELSE IF ~at_ok(index, s) THEN VectorRangeMsg
    ELSE "none"

\* T& operator[](size_t index), used to read: x = a[i].
Array_index_read ==
    \E i \in IndexArg :
        LET index == to_size_t(i)
            err == index_error(index, arr)
        IN  /\ UNCHANGED <<ptrVars, outVars>>
            /\ arr' = arr
            /\ UNCHANGED <<log, pure>>
            /\ arrLast' = ArrOp("read", i, NoVal,
                                IF err = "none" THEN at(index, arr) ELSE NoVal,
                                err, arr)

\* const T& operator[](size_t index) const: read-only access.
Array_index_read_const ==
    \E i \in IndexArg :
        LET index == to_size_t(i)
            err == index_error(index, arr)
        IN  /\ UNCHANGED <<ptrVars, outVars>>
            /\ arr' = arr
            /\ UNCHANGED <<log, pure>>
            /\ arrLast' = ArrOp("read_const", i, NoVal,
                                IF err = "none" THEN at(index, arr) ELSE NoVal,
                                err, arr)

\* T& operator[](size_t index), used to write: a[i] = v.
Array_index_write ==
    \E i \in IndexArg, v \in Values :
        LET index == to_size_t(i)
            err == index_error(index, arr)
        IN  /\ UNCHANGED <<ptrVars, outVars>>
            /\ arr' = IF err = "none" THEN store(arr, index, v) ELSE arr
            /\ log' = IF err = "none" THEN <<>> ELSE log
            /\ pure' = IF err = "none" THEN FALSE ELSE pure
            /\ arrLast' = ArrOp("write", i, v, NoVal, err, arr)

InitArray ==
    /\ arr = <<>>
    /\ log = <<>>
    /\ pure = TRUE
    /\ arrLast = ArrOp("ctor", 0, NoVal, NoVal, "none", <<>>)

NextArray ==
    \/ Array_ctor_empty
    \/ Array_ctor_range
    \/ Array_ctor_sized
    \/ Array_push_back
    \/ Array_pop_back
    \/ Array_clear
    \/ Array_index_read
    \/ Array_index_read_const
    \/ Array_index_write

(***************************************************************************)
(* Ptr<T>                                                                  *)
(***************************************************************************)
NullMsg == "Fax-lang: Null pointer access attempt"

Null == 0                       \* nullptr
Addr == 1 .. NumAddr            \* the non-null values of a T*
RawPtr == {Null} \cup Addr
PtrNames == {"p", "q"}          \* the Ptr objects generated code declares

PtrOp(op, s, arg, addr, val, isnull, err) ==
    [op |-> op, slot |-> s, arg |-> arg, addr |-> addr, val |-> val,
     isnull |-> isnull, err |-> err]

\* An undefined dereference may have ended the program.
halted == ptrLast.err = "crash"

\* The member initializer of Ptr(): data(nullptr).
default_init_unset == NumAddr
default_init == Null

\* The member initializer of Ptr(T* p): data(p).
ctor_init_null(p) == Null
ctor_init(p) == p

\* The test in the body of Ptr(T* p): if (!p) throw.
ctor_throws_never(p) == FALSE
ctor_throws(p) == p = Null

\* T* get() and T* operator->(): return data.
get_null(d) == Null
get(d) == d

\* bool is_null() const: data == nullptr.
is_null_negated(d) == d # Null
is_null(d) == d = Null

\* The implicit copy operations copy the member data.
copy_data_checked(d) == IF d = Null THEN 1 ELSE d
copy_data(d) == d

\* Ptr(): never checks, never throws.
Ptr_default_ctor ==
    \E s \in PtrNames :
        /\ ~halted
        /\ made[s] = "none"
        /\ UNCHANGED <<arrVars, outVars>>
        /\ data' = [data EXCEPT ![s] = default_init]
        /\ made' = [made EXCEPT ![s] = "default"]
        /\ asserted' = [asserted EXCEPT ![s] = Null]
        /\ UNCHANGED <<heap, live>>
        /\ ptrLast' = PtrOp("default_ctor", s, Null, NoVal, NoVal, FALSE, "none")

\* Ptr(T* p): data is initialized, then the body throws on null; an object
\* whose constructor throws never comes into existence.
Ptr_ctor ==
    \E s \in PtrNames, p \in RawPtr :
        LET d == ctor_init(p)
        IN  /\ ~halted
            /\ made[s] = "none"
            /\ UNCHANGED <<arrVars, outVars>>
            /\ UNCHANGED <<heap, live>>
            /\ IF ctor_throws(p)
               THEN /\ UNCHANGED <<data, made, asserted>>
                    /\ ptrLast' = PtrOp("ctor", s, p, NoVal, NoVal, FALSE, NullMsg)
               ELSE /\ data' = [data EXCEPT ![s] = d]
                    /\ made' = [made EXCEPT ![s] = "checked"]
                    /\ asserted' = [asserted EXCEPT ![s] = p]
                    /\ ptrLast' = PtrOp("ctor", s, p, NoVal, NoVal, FALSE, "none")

\* The implicit copy constructor: Ptr<T> s(t).
Ptr_copy_ctor ==
    \E s \in PtrNames, t \in PtrNames :
        /\ ~halted
        /\ made[s] = "none"
        /\ made[t] # "none"
        /\ UNCHANGED <<arrVars, outVars>>
        /\ data' = [data EXCEPT ![s] = copy_data(data[t])]
        /\ made' = [made EXCEPT ![s] = "copy"]
        /\ asserted' = [asserted EXCEPT ![s] = Null]
        /\ UNCHANGED <<heap, live>>
        /\ ptrLast' = PtrOp("copy_ctor", s, Null, data[t], NoVal, FALSE, "none")

\* The implicit copy assignment: s = t.
Ptr_assign ==
    \E s \in PtrNames, t \in PtrNames :
        /\ ~halted
        /\ made[s] # "none"
        /\ made[t] # "none"
        /\ UNCHANGED <<arrVars, outVars>>
        /\ data' = [data EXCEPT ![s] = copy_data(data[t])]
        /\ asserted' = [asserted EXCEPT ![s] = Null]
        /\ UNCHANGED <<made, heap, live>>
        /\ ptrLast' = PtrOp("assign", s, Null, data[t], NoVal, FALSE, "none")

\* The wrapper goes out of scope; the referent is not touched.
Ptr_destroy ==
    \E s \in PtrNames :
        /\ ~halted
        /\ made[s] # "none"
        /\ UNCHANGED <<arrVars, outVars>>
        /\ data' = [data EXCEPT ![s] = Null]
        /\ made' = [made EXCEPT ![s] = "none"]
        /\ asserted' = [asserted EXCEPT ![s] = Null]
        /\ UNCHANGED <<heap, live>>
        /\ ptrLast' = PtrOp("destroy", s, Null, NoVal, NoVal, FALSE, "none")

\* T& operator*(), used to read: x = *s.  No check: *data on a null or
\* dangling data is undefined, it yields any value or ends the program.
Ptr_deref_read ==
    \E s \in PtrNames :
        /\ ~halted
        /\ made[s] # "none"
        /\ UNCHANGED <<arrVars, outVars>>
        /\ UNCHANGED <<data, made, asserted, heap, live>>
        /\ IF data[s] \in live
           THEN ptrLast' = PtrOp("deref", s, Null, data[s], heap[data[s]],
                                 FALSE, "none")
           ELSE \/ ptrLast' = PtrOp("deref", s, Null, data[s], NoVal, FALSE,
                                    "crash")
                \/ \E v \in Values :
                       ptrLast' = PtrOp("deref", s, Null, data[s], v, FALSE,
                                        "none")

\* T& operator*(), used to write: *s = v.  Undefined on a null or dangling
\* data: the program ends, nothing visible happens, or some live referent
\* is overwritten.
Ptr_deref_write ==
    \E s \in PtrNames, v \in Values :
        /\ ~halted
        /\ made[s] # "none"
        /\ UNCHANGED <<arrVars, outVars>>
        /\ UNCHANGED <<data, made, asserted, live>>
        /\ IF data[s] \in live
           THEN /\ heap' = [heap EXCEPT ![data[s]] = v]
                /\ ptrLast' = PtrOp("deref_write", s, v, data[s], v, FALSE,
                                    "none")
           ELSE \/ /\ heap' = heap
                   /\ ptrLast' = PtrOp("deref_write", s, v, data[s], NoVal,
                                       FALSE, "crash")
                \/ /\ heap' = heap
                   /\ ptrLast' = PtrOp("deref_write", s, v, data[s], NoVal,
                                       FALSE, "none")
                \/ \E a \in live :
                       /\ heap' = [heap EXCEPT ![a] = v]
                       /\ ptrLast' = PtrOp("deref_write", s, v, data[s],
                                           NoVal, FALSE, "none")

\* T* operator->(): returns data, unchecked.
Ptr_arrow ==
    \E s \in PtrNames :
        /\ ~halted
        /\ made[s] # "none"
        /\ UNCHANGED <<arrVars, outVars>>
        /\ UNCHANGED <<data, made, asserted, heap, live>>
        /\ ptrLast' = PtrOp("arrow", s, Null, get(data[s]), NoVal, FALSE, "none")

\* T* get(): returns data, unchecked.
Ptr_get ==
    \E s \in PtrNames :
        /\ ~halted
        /\ made[s] # "none"
        /\ UNCHANGED <<arrVars, outVars>>
        /\ UNCHANGED <<data, made, asserted, heap, live>>
        /\ ptrLast' = PtrOp("get", s, Null, get(data[s]), NoVal, FALSE, "none")

Ptr_is_null_assigns ==
    \E s \in PtrNames :
        /\ ~halted
        /\ made[s] # "none"
        /\ UNCHANGED <<arrVars, outVars>>
        /\ data' = [data EXCEPT ![s] = Null]
        /\ UNCHANGED <<made, asserted, heap, live>>
        /\ ptrLast' = PtrOp("is_null", s, Null, NoVal, NoVal, FALSE, "none")

\* bool is_null() const.
Ptr_is_null ==
    \E s \in PtrNames :
        /\ ~halted
        /\ made[s] # "none"
        /\ UNCHANGED <<arrVars, outVars>>
        /\ UNCHANGED <<data, made, asserted, heap, live>>
        /\ ptrLast' = PtrOp("is_null", s, Null, NoVal, NoVal, is_null(data[s]),
                            "none")

\* The wrapper does not own the referent: the caller creates it, ...
Referent_alloc ==
    \E a \in Addr, v \in Values :
        /\ ~halted
        /\ a \notin live
        /\ UNCHANGED <<arrVars, outVars>>
        /\ UNCHANGED <<data, made, asserted>>
        /\ live' = live \cup {a}
        /\ heap' = [heap EXCEPT ![a] = v]
        /\ ptrLast' = PtrOp("alloc", "p", a, NoVal, v, FALSE, "none")

\* ... changes it behind the wrapper's back, ...
Referent_write ==
    \E a \in live, v \in Values :
        /\ ~halted
        /\ UNCHANGED <<arrVars, outVars>>
        /\ UNCHANGED <<data, made, asserted, live>>
        /\ heap' = [heap EXCEPT ![a] = v]
        /\ ptrLast' = PtrOp("write", "p", a, NoVal, v, FALSE, "none")

\* ... and ends its lifetime, whether or not a Ptr still holds it.
Referent_free ==
    \E a \in live :
        /\ ~halted
        /\ UNCHANGED <<arrVars, outVars>>
        /\ UNCHANGED <<data, made, asserted>>
        /\ live' = live \ {a}
        /\ heap' = [heap EXCEPT ![a] = NoVal]
        /\ ptrLast' = PtrOp("free", "p", a, NoVal, NoVal, FALSE, "none")

InitPtr ==
    /\ data = [s \in PtrNames |-> Null]
    /\ made = [s \in PtrNames |-> "none"]
    /\ asserted = [s \in PtrNames |-> Null]
    /\ heap = [a \in Addr |-> NoVal]
    /\ live = {}
    /\ ptrLast = PtrOp("start", "p", Null, NoVal, NoVal, FALSE, "none")

NextPtr ==
    \/ Ptr_default_ctor
    \/ Ptr_ctor
    \/ Ptr_copy_ctor
    \/ Ptr_assign
    \/ Ptr_destroy
    \/ Ptr_deref_read
    \/ Ptr_deref_write
    \/ Ptr_arrow
    \/ Ptr_get
    \/ Ptr_is_null
    \/ Referent_alloc
    \/ Referent_write
    \/ Referent_free

(***************************************************************************)
(* print_item / println                                                    *)
(***************************************************************************)
\* The printable values: integers and strings (a string is its characters).
IntVal(n) == [k |-> "int", n |-> n, s |-> <<>>]
StrVal(s) == [k |-> "str", n |-> 0, s |-> s]
PrintVals == {IntVal(0 - 10), IntVal(7), StrVal(<<>>), StrVal(<<"a", " ", "b">>)}

Digits == <<"0", "1", "2", "3", "4", "5", "6", "7", "8", "9">>

RECURSIVE NatToText(_)
NatToText(n) ==
    IF n < 10 THEN <<Digits[n + 1]>>
    ELSE NatToText(n \div 10) \o <<Digits[(n % 10) + 1]>>

\* What operator<< writes for a value: decimal digits, with a sign, for an
\* integer; the characters for a string.
text(v) ==
    IF v.k = "int"
    THEN IF v.n < 0 THEN <<"-">> \o NatToText(0 - v.n) ELSE NatToText(v.n)
    ELSE v.s

\* std::cout << val: the characters go after everything written before.
insert_front(out, t) == t \o out
insert(out, t) == out \o t

\* std::cout << std::endl
endl(out) == insert(out, <<"\n">>)

\* sizeof...(args) > 0
has_more_than_one(rest) == Len(rest) > 1
has_more(rest) == Len(rest) > 0

\* void print_item(const T& val)
print_item(out, val) == insert(out, text(val))

\* inline void println()
println_0(out) == endl(out)

\* void println(T first, Args... args): first, then either a space and the
\* rest, recursively, or the end of the line.
RECURSIVE println(_, _)
println(out, args) ==
    LET first == Head(args)
        rest == Tail(args)
        o1 == insert(out, text(first))
    IN  IF has_more(rest)
        THEN println(insert(o1, <<" ">>), rest)
        ELSE endl(o1)

OutCall(fn, args, before) == [fn |-> fn, args |-> args, before |-> before]

ArgLists == UNION {[1 .. n -> PrintVals] : n \in 1 .. MaxArgs}

call_print_item ==
    \E v \in PrintVals :
        /\ Len(calls) < MaxCalls
        /\ UNCHANGED <<arrVars, ptrVars>>
        /\ cout' = print_item(cout, v)
        /\ calls' = Append(calls, OutCall("print_item", <<v>>, <<>>))
        /\ outLast' = OutCall("print_item", <<v>>, cout)

call_println_0 ==
    /\ Len(calls) < MaxCalls
    /\ UNCHANGED <<arrVars, ptrVars>>
    /\ cout' = println_0(cout)
    /\ calls' = Append(calls, OutCall("println", <<>>, <<>>))
    /\ outLast' = OutCall("println", <<>>, cout)

call_println ==
    \E args \in ArgLists :
        /\ Len(calls) < MaxCalls
        /\ UNCHANGED <<arrVars, ptrVars>>
        /\ cout' = println(cout, args)
        /\ calls' = Append(calls, OutCall("println", args, <<>>))
        /\ outLast' = OutCall("println", args, cout)

InitOut ==
    /\ cout = <<>>
    /\ calls = <<>>
    /\ outLast = OutCall("start", <<>>, <<>>)

NextOut ==
    \/ call_print_item
    \/ call_println_0
    \/ call_println

(***************************************************************************)
(* Specifications                                                          *)
(***************************************************************************)
Init == InitArray /\ InitPtr /\ InitOut

SpecArray == Init /\ [][NextArray]_vars
SpecPtr == Init /\ [][NextPtr]_vars
SpecOut == Init /\ [][NextOut]_vars

(***************************************************************************)
(* Properties of Array                                                     *)
(***************************************************************************)
IndexOps == {"read", "read_const", "write"}
ReadOps == {"read", "read_const"}

\* C1: an indexed read or write (through either operator[] overload) at an
\* index i >= length(s) fails with the Fax-lang out-of-bounds error, returns
\* no element, and leaves s with the same length and the same elements in
\* the same positions as before.
C1_OutOfRangeFails ==
    (arrLast.op \in IndexOps /\ arrLast.uidx >= Len(arrLast.before)) =>
        /\ arrLast.err = OutOfBoundsMsg
        /\ arrLast.res = NoVal
        /\ Len(arr) = Len(arrLast.before)
        /\ \A k \in 1 .. Len(arr) : arr[k] = arrLast.before[k]

C1_Witness ==
    /\ arrLast.op = "write"
    /\ Len(arrLast.before) = 2
    /\ arrLast.uidx = 2
    /\ arrLast.err = OutOfBoundsMsg
    /\ arr = arrLast.before

\* C4: for 0 <= i < length(s), an indexed read returns the element stored
\* at position i and changes nothing; an indexed write at i puts the value
\* at position i and leaves the length and every other position unchanged.
C4_InRangeAccess ==
    (arrLast.op \in IndexOps /\ arrLast.uidx < Len(arrLast.before)) =>
        /\ arrLast.err = "none"
        /\ Len(arr) = Len(arrLast.before)
        /\ arrLast.op \in ReadOps =>
               /\ arrLast.res = arrLast.before[arrLast.uidx + 1]
               /\ arr = arrLast.before
        /\ arrLast.op = "write" =>
               /\ arr[arrLast.uidx + 1] = arrLast.val
               /\ \A j \in 1 .. Len(arr) :
                      j # arrLast.uidx + 1 => arr[j] = arrLast.before[j]

C4_Witness ==
    /\ arrLast.op = "write"
    /\ Len(arrLast.before) = 3
    /\ arrLast.uidx = 1
    /\ arrLast.err = "none"
    /\ arrLast.before[2] # arrLast.val
    /\ arr[2] = arrLast.val
    /\ arr[1] # arrLast.val

\* C7: after appending N values one at a time to an empty Array, its length
\* is N and reading any index 0..N-1 through operator[] raises no error and
\* returns the value appended at that position.
C7_AppendThenRead ==
    pure =>
        /\ size(arr) = Len(log)
        /\ (arrLast.op \in ReadOps /\ arrLast.uidx < Len(log)) =>
               /\ arrLast.err = "none"
               /\ arrLast.res = log[arrLast.uidx + 1]

C7_Witness ==
    /\ pure
    /\ Len(log) >= 2
    /\ log[1] # log[2]
    /\ arrLast.op = "read"
    /\ arrLast.uidx = 1
    /\ arrLast.res = log[2]

\* C10: an indexed access with an index outside [0, length) fails with the
\* out-of-bounds error without reading or writing any element; a negative
\* signed index i is converted to i + 2^w, which is >= length(s), and so
\* fails too.
C10_OutsideRangeFails ==
    arrLast.op \in IndexOps =>
        /\ arrLast.idx < 0 =>
               /\ arrLast.uidx = arrLast.idx + Pow2(SizeBits)
               /\ arrLast.uidx >= Len(arrLast.before)
        /\ (arrLast.idx < 0 \/ arrLast.idx >= Len(arrLast.before)) =>
               /\ arrLast.err = OutOfBoundsMsg
               /\ arrLast.res = NoVal
               /\ arr = arrLast.before

C10_Witness ==
    /\ arrLast.op = "read"
    /\ arrLast.idx = 0 - Pow2(SizeBits - 1)
    /\ Len(arrLast.before) = max_size
    /\ arrLast.uidx = Len(arrLast.before) + 1
    /\ arrLast.err = OutOfBoundsMsg

(***************************************************************************)
(* Properties of Ptr                                                       *)
(***************************************************************************)
\* C2: constructing a Ptr from a null reference fails with the Fax-lang
\* null error at construction time and no Ptr object comes into existence;
\* an object the checked constructor did bring into existence does not
\* hold null.
C2_NullCtorFails ==
    ptrLast.op = "ctor" =>
        /\ ptrLast.arg = Null =>
               /\ ptrLast.err = NullMsg
               /\ made[ptrLast.slot] = "none"
        /\ made[ptrLast.slot] # "none" =>
               /\ ptrLast.arg # Null
               /\ data[ptrLast.slot] # Null

C2_Witness ==
    /\ ptrLast.op = "ctor"
    /\ ptrLast.arg = Null
    /\ ptrLast.err = NullMsg
    /\ made[ptrLast.slot] = "none"
    /\ \E t \in PtrNames : made[t] = "checked"

\* C3, as stated: a Ptr built by the checked constructor never holds null
\* in any later state, whatever operations are applied to it.
C3_NeverNullAfterCtor ==
    \A s \in PtrNames : made[s] = "checked" => data[s] # Null

\* C3, amended: a Ptr built by the checked constructor holds a non-null
\* reference when constructed, and a step makes it hold null only by
\* assigning to it from a Ptr that holds null (a default-constructed one,
\* or a copy of one).
C3_NullOnlyByAssignment ==
    [][\A s \in PtrNames :
          (made'[s] = "checked" /\ data'[s] = Null) =>
              \/ (made[s] = "checked" /\ data[s] = Null)
              \/ /\ ptrLast'.op = "assign"
                 /\ ptrLast'.slot = s
                 /\ ptrLast'.addr = Null
                 /\ made[s] = "checked"]_vars

C3_Witness ==
    /\ ptrLast.op = "assign"
    /\ made[ptrLast.slot] = "checked"
    /\ ptrLast.addr # Null
    /\ data[ptrLast.slot] = ptrLast.addr
    /\ asserted[ptrLast.slot] = Null

\* C5: constructing a Ptr from a non-null reference r succeeds and the
\* object holds r; operator*, operator-> and get on that object yield the
\* referent r, and operator* yields the referent's current value (read) or
\* stores into it (write) while the referent is alive.
C5_NonNullCtorAndDeref ==
    /\ (ptrLast.op = "ctor" /\ ptrLast.arg # Null) =>
           /\ ptrLast.err = "none"
           /\ made[ptrLast.slot] = "checked"
           /\ data[ptrLast.slot] = ptrLast.arg
    /\ (ptrLast.op \in {"deref", "deref_write", "arrow", "get"}
            /\ asserted[ptrLast.slot] # Null) =>
           /\ ptrLast.addr = asserted[ptrLast.slot]
           /\ (ptrLast.op \in {"deref", "deref_write"}
                   /\ asserted[ptrLast.slot] \in live) =>
                  /\ ptrLast.err = "none"
                  /\ ptrLast.val = heap[asserted[ptrLast.slot]]
           /\ (ptrLast.op = "deref_write" /\ asserted[ptrLast.slot] \in live) =>
                  heap[asserted[ptrLast.slot]] = ptrLast.arg

C5_Witness ==
    /\ ptrLast.op = "deref"
    /\ asserted[ptrLast.slot] = NumAddr
    /\ NumAddr \in live
    /\ ptrLast.val = MaxVal
    /\ heap[NumAddr] = MaxVal

\* C8: the default constructor never fails and yields an object that holds
\* null; the one-argument constructor is the one that checks, and an object
\* it built is not null; is_null() returns true exactly for an object that
\* holds null.
C8_DefaultCtorUnset ==
    /\ ptrLast.op = "default_ctor" =>
           /\ ptrLast.err = "none"
           /\ made[ptrLast.slot] = "default"
           /\ data[ptrLast.slot] = Null
    /\ (ptrLast.op = "ctor" /\ ptrLast.err = "none") =>
           data[ptrLast.slot] # Null
    /\ ptrLast.op = "is_null" =>
           /\ ptrLast.err = "none"
           /\ ptrLast.isnull = (data[ptrLast.slot] = Null)
           /\ asserted[ptrLast.slot] # Null => ptrLast.isnull = FALSE

C8_Witness ==
    /\ ptrLast.op = "is_null"
    /\ made[ptrLast.slot] = "default"
    /\ ptrLast.isnull = TRUE
    /\ \E t \in PtrNames : made[t] = "checked" /\ asserted[t] # Null

(***************************************************************************)
(* Properties of println                                                   *)
(***************************************************************************)
Texts(args) == [k \in 1 .. Len(args) |-> text(args[k])]

\* The texts with one space between consecutive ones.
RECURSIVE JoinSpace(_)
JoinSpace(ts) ==
    IF ts = <<>> THEN <<>>
    ELSE IF Len(ts) = 1 THEN ts[1]
    ELSE ts[1] \o <<" ">> \o JoinSpace(Tail(ts))

RECURSIVE SumLen(_)
SumLen(ts) == IF ts = <<>> THEN 0 ELSE Len(Head(ts)) + SumLen(Tail(ts))

Line(args) == JoinSpace(Texts(args)) \o <<"\n">>

RECURSIVE Lines(_)
Lines(cs) == IF cs = <<>> THEN <<>> ELSE Line(Head(cs).args) \o Lines(Tail(cs))

\* C6: println of n >= 0 values adds to standard output exactly the values'
\* texts in argument order, one space between consecutive values (n - 1
\* separators, none leading or trailing), then one newline; with no
\* argument it adds one newline and nothing else.
C6_PrintlnFormat ==
    outLast.fn = "println" =>
        LET n == Len(outLast.args)
            was == Len(outLast.before)
        IN  /\ cout = outLast.before \o Line(outLast.args)
            /\ n = 0 => Len(cout) = was + 1 /\ cout[Len(cout)] = "\n"
            /\ n > 0 =>
                   Len(cout) = was + SumLen(Texts(outLast.args)) + (n - 1) + 1

C6_Witness ==
    /\ outLast.fn = "println"
    /\ Len(outLast.args) = 2
    /\ outLast.args[1] = IntVal(0 - 10)
    /\ outLast.args[2] = StrVal(<<"a", " ", "b">>)
    /\ outLast.before # <<>>
    /\ cout = outLast.before \o <<"-", "1", "0", " ", "a", " ", "b", "\n">>

\* C9: after any sequence of println calls, standard output holds the
\* calls' complete lines one after the other in the order of the calls.
C9_CallOrder ==
    (\A k \in 1 .. Len(calls) : calls[k].fn = "println") => cout = Lines(calls)

C9_Witness ==
    /\ Len(calls) = 2
    /\ calls[1].fn = "println"
    /\ calls[2].fn = "println"
    /\ calls[1].args = <<IntVal(7), StrVal(<<>>)>>
    /\ calls[2].args = <<StrVal(<<"a", " ", "b">>)>>
    /\ cout = <<"7", " ", "\n", "a", " ", "b", "\n">>

====
